---- MODULE Spec2Model ----
(***************************************************************************)
(* Model of the Go linker of BlazeDock (package linker): LinkGoModules     *)
(* rewrites the replace directives of the go.mod files of a workspace,     *)
(* LinkGoWorkspace rewrites the use directives of go.work and strips the   *)
(* blazedock-owned replace directives from every go.mod.                   *)
(*                                                                         *)
(* A go.mod on disk is the sequence of its replace directives in file      *)
(* order, each with its old (path, version), new (path, version) and the   *)
(* words of its trailing comment.  golang.org/x/mod/modfile is modelled by *)
(* what its File does to that sequence: a parsed file holds the Replace    *)
(* slice and, separately, the syntax lines that Format prints.  The        *)
(* grouping of the lines into blocks is not modelled.                      *)
(***************************************************************************)
EXTENDS Integers, Sequences, FiniteSets, TLC

(***************************************************************************)
(* Bounds                                                                  *)
(***************************************************************************)
\* calls made in one behaviour
MaxOps == 2
\* directives present in the go.mod files and go.work initially, plus faults
MaxInit == 2

(***************************************************************************)
(* The workspace: packages, their kind, component directory, go.mod file   *)
(* and transitive dependencies (supplied by the workspace model).          *)
(***************************************************************************)
GoPackage == "go"

Packages == {"a:lib", "b:lib", "b:cli", "c:app", "c:docs"}

Type(p) == IF p = "c:docs" THEN "generic" ELSE GoPackage

GoPackages == {p \in Packages : Type(p) = GoPackage}

\* pkg.C.Origin relative to workspace.Origin
Origin(p) ==
    CASE p = "a:lib" -> "a"
      [] p = "b:lib" -> "b"
      [] p = "b:cli" -> "b"
      [] p = "c:app" -> "c"
      [] p = "c:docs" -> "c"

GetTransitiveDependencies(p) ==
    CASE p = "a:lib" -> {}
      [] p = "b:lib" -> {"a:lib"}
      [] p = "b:cli" -> {}
      [] p = "c:app" -> {"a:lib", "b:lib", "b:cli", "c:docs"}
      [] p = "c:docs" -> {}

NoFile == ""

Files == {"a/go.mod", "b/go.mod", "c/go.mod"}

\* the go.mod a package lists among its sources when it lists one
GoModOf(p) == Origin(p) \o "/go.mod"

\* filepath.Dir of a go.mod
Dir(fn) ==
    CASE fn = "a/go.mod" -> "a"
      [] fn = "b/go.mod" -> "b"
      [] fn = "c/go.mod" -> "c"

\* the module directive of each go.mod
ModulePath(fn) ==
    CASE fn = "a/go.mod" -> "mod/a"
      [] fn = "b/go.mod" -> "mod/b"
      [] fn = "c/go.mod" -> "mod/c"

\* position of a string in ascending string order (Go's < on strings)
StrRank(s) ==
    CASE s = "a" -> 1
      [] s = "b" -> 2
      [] s = "c" -> 3
      [] s = "mod/a" -> 4
      [] s = "mod/b" -> 5
      [] s = "mod/c" -> 6
      [] s = "x" -> 7
      [] OTHER -> 0

\* filepath.Rel between two component directories
Rel(from, to) == IF from = to THEN "." ELSE "../" \o to

(***************************************************************************)
(* Comments and the ownership classifier                                   *)
(***************************************************************************)
NoComment == << >>

\* the suffix comment "// blazedock" split into words after the slashes
DirectComment == <<"blazedock">>

IndirectComment(source) == <<"blazedock", "indirect", "from", source>>

\* strings.Contains(c.Token, "blazedock")
ContainsMarker(c) == \E i \in 1..Len(c) : c[i] = "blazedock"

\* strings.Contains(c.Token, " w "): w is a word with a space on both sides
ContainsSpaced(c, w) == \E i \in 1..(Len(c) - 1) : c[i] = w

blazedockReplaceDirect == 0
blazedockReplaceIndirect == 1
blazedockReplaceIgnore == 2

NilLine == [nil |-> TRUE]

\* isBlazedockReplace on a syntax line (NilLine for a nil *modfile.Line)
isBlazedockReplace(rep) ==
    IF rep = NilLine THEN [ok |-> FALSE, tpe |-> blazedockReplaceIgnore]
    ELSE IF ContainsMarker(rep.Suffix)
         THEN [ok |-> TRUE,
               tpe |-> IF ContainsSpaced(rep.Suffix, "indirect")
                       THEN blazedockReplaceIndirect
                       ELSE IF ContainsSpaced(rep.Suffix, "ignore")
                            THEN blazedockReplaceIgnore
                            ELSE blazedockReplaceDirect]
         ELSE [ok |-> FALSE, tpe |-> blazedockReplaceDirect]

(***************************************************************************)
(* modfile.File: Parse, DropReplace, AddReplace, Cleanup, Format           *)
(***************************************************************************)
Version(p, v) == [Path |-> p, Version |-> v]

ZeroReplace == [Old |-> Version("", ""), New |-> Version("", ""), Syntax |-> 0]

\* a replace directive of a go.mod on disk
DiskLine(old, new, suffix) == [Old |-> old, New |-> new, Suffix |-> suffix]

\* modfile.Parse: one Replace per directive, pointing at its syntax line
Parse(lines) ==
    [Replace |-> [i \in 1..Len(lines) |->
                    [Old |-> lines[i].Old, New |-> lines[i].New, Syntax |-> i]],
     Syntax |-> [i \in 1..Len(lines) |->
                    [Old |-> lines[i].Old, New |-> lines[i].New,
                     Suffix |-> lines[i].Suffix, removed |-> FALSE]]]

\* rep.Syntax of the i-th Replace
SyntaxOf(gomod, i) ==
    IF gomod.Replace[i].Syntax = 0 THEN NilLine
    ELSE gomod.Syntax[gomod.Replace[i].Syntax]

\* Line.markRemoved
markRemoved(line) == [line EXCEPT !.removed = TRUE, !.Suffix = NoComment]

\* File.DropReplace: every Replace with that old path and version is zeroed
\* and its line marked removed
DropReplace(gomod, oldPath, oldVers) ==
    LET hit(i) == /\ gomod.Replace[i].Old.Path = oldPath
                  /\ gomod.Replace[i].Old.Version = oldVers
                  /\ gomod.Replace[i].Syntax # 0
    IN [Replace |-> [i \in DOMAIN gomod.Replace |->
                        IF hit(i) THEN ZeroReplace ELSE gomod.Replace[i]],
        Syntax |-> [k \in DOMAIN gomod.Syntax |->
                        IF \E i \in DOMAIN gomod.Replace :
                               hit(i) /\ gomod.Replace[i].Syntax = k
                        THEN markRemoved(gomod.Syntax[k])
                        ELSE gomod.Syntax[k]]]

\* insert a new syntax line after position k (k = Len: append)
InsertLine(syntax, k, line) ==
    SubSeq(syntax, 1, k) \o <<line>> \o SubSeq(syntax, k + 1, Len(syntax))

\* the loop of modfile's addReplace over the Replace slice, from index i:
\* the first Replace matching old gets the new target and its line rewritten
\* (an old version of "" matches every version of the path; Replace.Old is
\* left as it was), further matches are removed, and hint is the line of the
\* last Replace of the same path that did not match
RECURSIVE AddReplaceLoop(_, _, _, _, _, _)
AddReplaceLoop(gomod, i, old, new, need, hint) ==
    IF i > Len(gomod.Replace) THEN [gomod |-> gomod, need |-> need, hint |-> hint]
    ELSE LET r == gomod.Replace[i]
         IN IF r.Old.Path = old.Path /\ (old.Version = "" \/ r.Old.Version = old.Version)
            THEN IF need
                 THEN AddReplaceLoop(
                        [Replace |-> [gomod.Replace EXCEPT ![i].New = new],
                         Syntax |-> [gomod.Syntax EXCEPT ![r.Syntax].Old = old,
                                                         ![r.Syntax].New = new]],
                        i + 1, old, new, FALSE, hint)
                 ELSE AddReplaceLoop(
                        [Replace |-> [gomod.Replace EXCEPT ![i] = ZeroReplace],
                         Syntax |-> [gomod.Syntax EXCEPT
                                        ![r.Syntax] = markRemoved(gomod.Syntax[r.Syntax])]],
                        i + 1, old, new, need, hint)
            ELSE AddReplaceLoop(gomod, i + 1, old, new, need,
                                IF r.Old.Path = old.Path THEN r.Syntax ELSE hint)

\* FileSyntax.addLine after line k (k = Len: at the end of the replace lines)
\* and the Replace appended for it
addLine(gomod, k, old, new) ==
    [Replace |-> Append([i \in DOMAIN gomod.Replace |->
                            IF gomod.Replace[i].Syntax > k
                            THEN [gomod.Replace[i] EXCEPT !.Syntax = @ + 1]
                            ELSE gomod.Replace[i]],
                        [Old |-> old, New |-> new, Syntax |-> k + 1]),
     Syntax |-> InsertLine(gomod.Syntax, k,
                           [Old |-> old, New |-> new, Suffix |-> NoComment,
                            removed |-> FALSE])]

\* the end of modfile's addReplace: when no Replace matched, a new line is
\* added after the hint line, else at the end
addReplaceNeed(res, old, new) ==
    IF ~res.need THEN res.gomod
    ELSE addLine(res.gomod,
                 IF res.hint # 0 THEN res.hint ELSE Len(res.gomod.Syntax), old, new)

\* File.AddReplace
AddReplace(gomod, oldPath, oldVers, newPath, newVers) ==
    addReplaceNeed(AddReplaceLoop(gomod, 1, Version(oldPath, oldVers),
                                  Version(newPath, newVers), TRUE, 0),
                   Version(oldPath, oldVers), Version(newPath, newVers))

\* File.Cleanup followed by File.Format: the lines that are not removed, in
\* syntax order, printed from the tokens and comments of the line
Format(gomod) ==
    LET live == SelectSeq(gomod.Syntax, LAMBDA l : ~l.removed)
    IN [i \in 1..Len(live) |-> DiskLine(live[i].Old, live[i].New, live[i].Suffix)]

(***************************************************************************)
(* The linker's helpers                                                    *)
(***************************************************************************)
ErrNone == "nil"
ErrConflict == "exists already, but was not added by blazedock"
ErrNotFound == "go.mod not found"
ErrRead == "cannot read or parse"
ErrNotWorkspace == "not a Go workspace"

\* addReplaceScan with an ignore entry dropped like the other owned entries
RECURSIVE addReplaceScanDropIgnore(_, _, _)
addReplaceScanDropIgnore(gomod, i, old) ==
    IF i > Len(gomod.Replace) THEN [err |-> ErrNone, gomod |-> gomod]
    ELSE LET rep == gomod.Replace[i]
             cls == isBlazedockReplace(SyntaxOf(gomod, i))
         IN IF rep.Old.Path # old.Path \/ rep.Old.Version # old.Version
            THEN addReplaceScanDropIgnore(gomod, i + 1, old)
            ELSE IF cls.ok
                 THEN addReplaceScanDropIgnore(
                        DropReplace(gomod, old.Path, old.Version), i + 1, old)
                 ELSE [err |-> ErrConflict, gomod |-> gomod]

\* the first loop of addReplace, from index i of gomod.Replace: an owned entry
\* for the same key that is not an ignore entry is dropped, any other entry
\* for the key is a conflict
RECURSIVE addReplaceScan(_, _, _)
addReplaceScan(gomod, i, old) ==
    IF i > Len(gomod.Replace) THEN [err |-> ErrNone, gomod |-> gomod]
    ELSE LET rep == gomod.Replace[i]
             cls == isBlazedockReplace(SyntaxOf(gomod, i))
         IN IF rep.Old.Path # old.Path \/ rep.Old.Version # old.Version
            THEN addReplaceScan(gomod, i + 1, old)
            ELSE IF cls.ok /\ cls.tpe # blazedockReplaceIgnore
                 THEN addReplaceScan(DropReplace(gomod, old.Path, old.Version), i + 1, old)
                 ELSE [err |-> ErrConflict, gomod |-> gomod]

\* the second loop of addReplace: every Replace with the key gets the comment
SetComment(gomod, old, comment) ==
    [gomod EXCEPT !.Syntax =
        [k \in DOMAIN gomod.Syntax |->
            IF \E i \in DOMAIN gomod.Replace :
                   /\ gomod.Replace[i].Syntax = k
                   /\ gomod.Replace[i].Old.Path = old.Path
                   /\ gomod.Replace[i].Old.Version = old.Version
            THEN [gomod.Syntax[k] EXCEPT !.Suffix = comment]
            ELSE gomod.Syntax[k]]]

\* addReplace after its first loop: the error of the loop, or AddReplace and
\* the comment
addReplaceAdd(scan, old, new, comment) ==
    IF scan.err # ErrNone THEN scan
    ELSE [err |-> ErrNone,
          gomod |-> SetComment(AddReplace(scan.gomod, old.Path, old.Version,
                                          new.Path, new.Version),
                               old, comment)]

addReplace(gomod, old, new, direct, source) ==
    addReplaceAdd(addReplaceScan(gomod, 1, old), old, new,
                  IF direct THEN DirectComment ELSE IndirectComment(source))

\* dropOwned with the indirect entries skipped like the ignore entries
RECURSIVE dropOwnedKeepIndirect(_, _)
dropOwnedKeepIndirect(gomod, i) ==
    IF i > Len(gomod.Replace) THEN [err |-> ErrNone, gomod |-> gomod]
    ELSE LET rep == gomod.Replace[i]
             cls == isBlazedockReplace(SyntaxOf(gomod, i))
         IN IF ~cls.ok \/ cls.tpe # blazedockReplaceDirect
            THEN dropOwnedKeepIndirect(gomod, i + 1)
            ELSE dropOwnedKeepIndirect(
                    DropReplace(gomod, rep.Old.Path, rep.Old.Version), i + 1)

\* the callback of removeBlazedockReplaceRules, from index i of gomod.Replace
RECURSIVE dropOwned(_, _)
dropOwned(gomod, i) ==
    IF i > Len(gomod.Replace) THEN [err |-> ErrNone, gomod |-> gomod]
    ELSE LET rep == gomod.Replace[i]
             cls == isBlazedockReplace(SyntaxOf(gomod, i))
         IN IF ~cls.ok \/ cls.tpe = blazedockReplaceIgnore
            THEN dropOwned(gomod, i + 1)
            ELSE dropOwned(DropReplace(gomod, rep.Old.Path, rep.Old.Version), i + 1)

\* the first loop of linkGoModule's callback, from the i-th module: one direct
\* entry per module; res is the error and the gomod so far, and an error ends
\* the loop
RECURSIVE linkDirect(_, _, _, _)
linkDirect(res, goModFN, mods, i) ==
    IF res.err # ErrNone \/ i > Len(mods) THEN res
    ELSE linkDirect(addReplace(res.gomod, Version(mods[i].Name, ""),
                               Version(Rel(Dir(goModFN), mods[i].OriginPath), ""),
                               TRUE, mods[i].OriginPackage),
                    goModFN, mods, i + 1)

\* the second loop: the j-th replacement of the i-th module onwards
RECURSIVE linkIndirect(_, _, _, _)
linkIndirect(res, mods, i, j) ==
    IF res.err # ErrNone \/ i > Len(mods) THEN res
    ELSE IF j > Len(mods[i].Replacements) THEN linkIndirect(res, mods, i + 1, 1)
    ELSE linkIndirect(addReplace(res.gomod, mods[i].Replacements[j].Old,
                                 mods[i].Replacements[j].New, FALSE,
                                 mods[i].OriginPackage),
                      mods, i, j + 1)

\* the two function literals handed to modifyGoMod, as closures: the one of
\* removeBlazedockReplaceRules, and the one of linkGoModule over its mods
removeClosure == [of |-> "removeBlazedockReplaceRules"]

linkClosure(mods) == [of |-> "linkGoModule", mods |-> mods]

\* the call mod(goModFN, gomod) of modifyGoMod
mod(closure, goModFN, gomod) ==
    IF closure.of = "removeBlazedockReplaceRules" THEN dropOwned(gomod, 1)
    ELSE linkIndirect(linkDirect([err |-> ErrNone, gomod |-> gomod],
                                 goModFN, closure.mods, 1),
                      closure.mods, 1, 1)

\* the end of modifyGoMod: the error of mod, or Cleanup, Format and WriteFile
writeGoMod(fs, goModFn, res) ==
    IF res.err # ErrNone THEN [err |-> res.err, fs |-> fs]
    ELSE [err |-> ErrNone, fs |-> [fs EXCEPT ![goModFn].Replace = Format(res.gomod)]]

\* modifyGoMod with a package that lists no go.mod skipped without an error
modifyGoModSkipMissing(fs, goModFn, closure) ==
    IF goModFn = NoFile THEN [err |-> ErrNone, fs |-> fs]
    ELSE IF ~fs[goModFn].ok THEN [err |-> ErrRead, fs |-> fs]
    ELSE writeGoMod(fs, goModFn, mod(closure, goModFn, Parse(fs[goModFn].Replace)))

\* modifyGoMod on the file system fs (go.mod name -> [ok, Replace]) for a
\* package whose go.mod source is goModFn: find, read, parse, mod, format, write
modifyGoMod(fs, goModFn, closure) ==
    IF goModFn = NoFile THEN [err |-> ErrNotFound, fs |-> fs]
    ELSE IF ~fs[goModFn].ok THEN [err |-> ErrRead, fs |-> fs]
    ELSE writeGoMod(fs, goModFn, mod(closure, goModFn, Parse(fs[goModFn].Replace)))

removeBlazedockReplaceRules(fs, goModFn) == modifyGoMod(fs, goModFn, removeClosure)

\* linkGoModule after removeBlazedockReplaceRules returned removed
linkGoModuleAdd(removed, goModFn, mods) ==
    IF removed.err # ErrNone THEN removed
    ELSE modifyGoMod(removed.fs, goModFn, linkClosure(mods))

linkGoModule(fs, goModFn, mods) ==
    linkGoModuleAdd(removeBlazedockReplaceRules(fs, goModFn), goModFn, mods)

(***************************************************************************)
(* State                                                                   *)
(***************************************************************************)
VARIABLES
    sources,   \* package -> the go.mod among its Sources, NoFile when none
    fs,        \* go.mod name -> [ok: readable and parsable, Replace: its lines]
    work,      \* go.work: [exists, Use: its use lines]
    call,      \* the last call: operation, target, returned error, links made
    prev,      \* the call before the last one: operation, target, error
    pre,       \* fs and work as they were when the last call started
    orig,      \* fs as it was initially
    ops        \* number of calls made

vars == <<sources, fs, work, call, prev, pre, orig, ops>>

Nil == "nil"

\* all orders in which a set may be enumerated (Go map and slice iteration)
Perms(S) ==
    {s \in [1..Cardinality(S) -> S] : \A i, j \in 1..Cardinality(S) : s[i] = s[j] => i = j}

(***************************************************************************)
(* collectReplacements                                                     *)
(***************************************************************************)
\* goModule with every directive of the go.mod collected
goModuleKeepOwned(src, files, n) ==
    [Name |-> ModulePath(src[n]),
     OriginPath |-> Dir(src[n]),
     OriginPackage |-> n,
     Replacements |-> files[src[n]].Replace]

\* the goModule of package n read from its go.mod: the replacements are the
\* directives isBlazedockReplace does not recognise
goModule(src, files, n) ==
    [Name |-> ModulePath(src[n]),
     OriginPath |-> Dir(src[n]),
     OriginPackage |-> n,
     Replacements |-> SelectSeq(files[src[n]].Replace,
                                LAMBDA rep : ~isBlazedockReplace(rep).ok)]

\* collectReplacements with an unreadable go.mod skipped instead of returned
collectReplacementsSkipUnreadable(src, files) ==
    LET withMod == {n \in Packages : Type(n) = GoPackage /\ src[n] # NoFile
                                     /\ files[src[n]].ok}
    IN [err |-> ErrNone, mods |-> [n \in withMod |-> goModule(src, files, n)]]

collectReplacements(src, files) ==
    LET withMod == {n \in Packages : Type(n) = GoPackage /\ src[n] # NoFile}
    IN IF \E n \in withMod : ~files[src[n]].ok
       THEN [err |-> ErrRead, mods |-> << >>]
       ELSE [err |-> ErrNone, mods |-> [n \in withMod |-> goModule(src, files, n)]]

(***************************************************************************)
(* LinkGoModules                                                           *)
(***************************************************************************)
\* the apmods loop over the dependencies in the order deps: go packages with
\* an entry in mods
RECURSIVE Resolve(_, _, _)
Resolve(deps, mods, i) ==
    IF i > Len(deps) THEN << >>
    ELSE IF Type(deps[i]) # GoPackage \/ deps[i] \notin DOMAIN mods
         THEN Resolve(deps, mods, i + 1)
         ELSE <<mods[deps[i]]>> \o Resolve(deps, mods, i + 1)

\* InsertByName with the comparison of the less function reversed
RECURSIVE InsertByNameDescending(_, _)
InsertByNameDescending(sorted, x) ==
    IF sorted = << >> THEN <<x>>
    ELSE LET last == sorted[Len(sorted)]
         IN IF StrRank(x.Name) > StrRank(last.Name)
            THEN InsertByNameDescending(SubSeq(sorted, 1, Len(sorted) - 1), x)
                    \o <<last>>
            ELSE Append(sorted, x)

\* one step of the insertion sort sort.Slice runs on short slices: x moves
\* left past the elements whose Name is greater
RECURSIVE InsertByName(_, _)
InsertByName(sorted, x) ==
    IF sorted = << >> THEN <<x>>
    ELSE LET last == sorted[Len(sorted)]
         IN IF StrRank(x.Name) < StrRank(last.Name)
            THEN InsertByName(SubSeq(sorted, 1, Len(sorted) - 1), x) \o <<last>>
            ELSE Append(sorted, x)

RECURSIVE SortSlice(_, _)
SortSlice(apmods, i) ==
    IF i = 0 THEN << >>
    ELSE InsertByName(SortSlice(apmods, i - 1), apmods[i])

\* the orders in which GetTransitiveDependencies may return the dependencies
DepOrders == [p \in Packages |-> Perms(GetTransitiveDependencies(p))]

\* the sorted apmods of package p, one per order of its dependencies
SortedApmods(p, mods) ==
    {LET apmods == Resolve(deps, mods, 1) IN SortSlice(apmods, Len(apmods)) :
        deps \in DepOrders[p]}

\* toLink without the comparison of the full names
toLinkAnyTarget(todo, target) == {p \in todo : Type(p) = GoPackage}

\* the packages of todo the loop of LinkGoModules does not skip
toLink(todo, target) ==
    {p \in todo : Type(p) = GoPackage /\ (target = Nil \/ p = target)}

\* one iteration of the loop for each choice of choices whose package is
\* still to be visited: the package, the call of linkGoModule as recorded,
\* and its result
linkSteps(src, files, todo, choices) ==
    {[pkg |-> c[1],
      link |-> [pkg |-> c[1], mods |-> {c[2][i] : i \in 1..Len(c[2])}],
      res |-> linkGoModule(files, src[c[1]], c[2])] :
        c \in {d \in choices : d[1] \in todo}}

\* the choices of a package and a sorted apmods among the packages ps
linkChoices(ps, mods) ==
    UNION {{<<p, apmods>> : apmods \in SortedApmods(p, mods)} : p \in ps}

\* LinkLoop with the registry collected again before each package is linked
RECURSIVE LinkLoopRecollect(_, _, _, _, _, _)
LinkLoopRecollect(src, files, target, todo, choices, linked) ==
    IF toLink(todo, target) = {}
    THEN {[err |-> ErrNone, fs |-> files, linked |-> linked]}
    ELSE UNION {
            IF step.res.err # ErrNone
            THEN {[err |-> step.res.err, fs |-> step.res.fs,
                   linked |-> linked \cup {step.link}]}
            ELSE LinkLoopRecollect(src, step.res.fs, target,
                                   toLink(todo, target) \ {step.pkg}, choices,
                                   linked \cup {step.link})
            : step \in linkSteps(src, files, toLink(todo, target),
                                 linkChoices(toLink(todo, target),
                                             collectReplacements(src, files).mods))}

\* the loop of LinkGoModules over the packages still to be visited, which
\* the range over the workspace.Packages map yields in any order: the results
\* it can have.  choices holds the pairs of a package and a sorted apmods it
\* may be linked with; linked collects the calls of linkGoModule made.
RECURSIVE LinkLoop(_, _, _, _, _, _)
LinkLoop(src, files, target, todo, choices, linked) ==
    IF toLink(todo, target) = {}
    THEN {[err |-> ErrNone, fs |-> files, linked |-> linked]}
    ELSE UNION {
            IF step.res.err # ErrNone
            THEN {[err |-> step.res.err, fs |-> step.res.fs,
                   linked |-> linked \cup {step.link}]}
            ELSE LinkLoop(src, step.res.fs, target,
                          toLink(todo, target) \ {step.pkg}, choices,
                          linked \cup {step.link})
            : step \in linkSteps(src, files, toLink(todo, target), choices)}

\* the results LinkGoModules can have
LinkGoModulesResults(src, files, target) ==
    LET collected == collectReplacements(src, files)
    IN IF collected.err # ErrNone
       THEN {[err |-> collected.err, fs |-> files, linked |-> {}]}
       ELSE LinkLoop(src, files, target, Packages,
                     linkChoices(toLink(Packages, target), collected.mods), {})

LinkGoModules(target) ==
    /\ ops < MaxOps
    /\ \E res \in LinkGoModulesResults(sources, fs, target) :
        /\ fs' = res.fs
        /\ call' = [op |-> "LinkGoModules", target |-> target, err |-> res.err,
                    linked |-> res.linked]
    /\ prev' = [op |-> call.op, target |-> call.target, err |-> call.err]
    /\ pre' = [fs |-> fs, work |-> work]
    /\ ops' = ops + 1
    /\ UNCHANGED <<sources, work, orig>>

(***************************************************************************)
(* LinkGoWorkspace.  The use directives of go.work are taken to form one   *)
(* block, which SortBlocks sorts as a whole.                               *)
(***************************************************************************)
UseLine(path, suffix) == [Path |-> path, Suffix |-> suffix]

\* modfile.ParseWork
ParseWork(lines) ==
    [Use |-> [i \in 1..Len(lines) |-> [Path |-> lines[i].Path, Syntax |-> i]],
     Syntax |-> [i \in 1..Len(lines) |->
                    [Path |-> lines[i].Path, Suffix |-> lines[i].Suffix, removed |-> FALSE]]]

\* WorkFile.DropUse
DropUse(workFile, path) ==
    LET hit(i) == workFile.Use[i].Path = path /\ workFile.Use[i].Syntax # 0
    IN [Use |-> [i \in DOMAIN workFile.Use |->
                    IF hit(i) THEN [Path |-> "", Syntax |-> 0] ELSE workFile.Use[i]],
        Syntax |-> [k \in DOMAIN workFile.Syntax |->
                    IF \E i \in DOMAIN workFile.Use : hit(i) /\ workFile.Use[i].Syntax = k
                    THEN markRemoved(workFile.Syntax[k])
                    ELSE workFile.Syntax[k]]]

\* WorkFile.AddNewUse
AddNewUse(workFile, diskPath) ==
    [Use |-> Append(workFile.Use, [Path |-> diskPath, Syntax |-> Len(workFile.Syntax) + 1]),
     Syntax |-> Append(workFile.Syntax,
                       [Path |-> diskPath, Suffix |-> NoComment, removed |-> FALSE])]

\* the first loop of LinkGoWorkspace, from index i of workFile.Use
RECURSIVE dropOwnedUse(_, _)
dropOwnedUse(workFile, i) ==
    IF i > Len(workFile.Use) THEN workFile
    ELSE LET use == workFile.Use[i]
             line == IF use.Syntax = 0 THEN NilLine ELSE workFile.Syntax[use.Syntax]
         IN IF isBlazedockReplace(line).ok
            THEN dropOwnedUse(DropUse(workFile, use.Path), i + 1)
            ELSE dropOwnedUse(workFile, i + 1)

\* the keys of the goModules map
goModules == {Origin(pkg) : pkg \in {p \in Packages : Type(p) = GoPackage}}

\* sort.Strings of a set of paths
RECURSIVE SortStrings(_)
SortStrings(S) ==
    IF S = {} THEN << >>
    ELSE LET least == CHOOSE x \in S : \A y \in S : StrRank(x) <= StrRank(y)
         IN <<least>> \o SortStrings(S \ {least})

RECURSIVE addUses(_, _, _)
addUses(workFile, sortedPaths, i) ==
    IF i > Len(sortedPaths) THEN workFile
    ELSE addUses(AddNewUse(workFile, sortedPaths[i]), sortedPaths, i + 1)

\* the loop that marks every use of a go module directory
annotateUses(workFile) ==
    [workFile EXCEPT !.Syntax =
        [k \in DOMAIN workFile.Syntax |->
            IF \E i \in DOMAIN workFile.Use :
                   /\ workFile.Use[i].Syntax = k
                   /\ workFile.Use[i].Path \in goModules
            THEN [workFile.Syntax[k] EXCEPT !.Suffix = DirectComment]
            ELSE workFile.Syntax[k]]]

\* stable sort of the lines of the use block by their path token
RECURSIVE InsertByPath(_, _)
InsertByPath(sorted, x) ==
    IF sorted = << >> THEN <<x>>
    ELSE LET last == sorted[Len(sorted)]
         IN IF StrRank(x.Path) < StrRank(last.Path)
            THEN InsertByPath(SubSeq(sorted, 1, Len(sorted) - 1), x) \o <<last>>
            ELSE Append(sorted, x)

RECURSIVE SortBlocks(_, _)
SortBlocks(lines, i) ==
    IF i = 0 THEN << >>
    ELSE InsertByPath(SortBlocks(lines, i - 1), lines[i])

\* SortBlocks, Cleanup and modfile.Format of the work file
FormatWork(workFile) ==
    LET live == SelectSeq(workFile.Syntax, LAMBDA l : ~l.removed)
        sorted == SortBlocks(live, Len(live))
    IN [i \in 1..Len(sorted) |-> UseLine(sorted[i].Path, sorted[i].Suffix)]

\* the go.work written by LinkGoWorkspace from the lines read
rewriteWork(lines) ==
    FormatWork(annotateUses(addUses(dropOwnedUse(ParseWork(lines), 1),
                                    SortStrings(goModules), 1)))

\* one iteration of the teardown loop for each package still to be visited:
\* the package, the call of removeBlazedockReplaceRules as recorded, and its
\* result
teardownSteps(src, files, todo) ==
    {[pkg |-> p, link |-> [pkg |-> p, mods |-> {}],
      res |-> removeBlazedockReplaceRules(files, src[p])] : p \in todo}

\* teardownLoop going on to the next package after an error and returning
\* the first error at the end
RECURSIVE teardownLoopNoAbort(_, _, _, _, _)
teardownLoopNoAbort(src, files, todo, err, linked) ==
    IF toLink(todo, Nil) = {} THEN {[err |-> err, fs |-> files, linked |-> linked]}
    ELSE UNION {
            teardownLoopNoAbort(src, step.res.fs, toLink(todo, Nil) \ {step.pkg},
                                IF err # ErrNone THEN err ELSE step.res.err,
                                linked \cup {step.link})
            : step \in teardownSteps(src, files, toLink(todo, Nil))}

\* the teardown loop over the packages still to be visited, in any order:
\* the results it can have.  err is the error so far (none when the loop
\* runs), linked collects the calls of removeBlazedockReplaceRules made.
RECURSIVE teardownLoop(_, _, _, _, _)
teardownLoop(src, files, todo, err, linked) ==
    IF toLink(todo, Nil) = {} THEN {[err |-> err, fs |-> files, linked |-> linked]}
    ELSE UNION {
            IF step.res.err # ErrNone
            THEN {[err |-> step.res.err, fs |-> step.res.fs,
                   linked |-> linked \cup {step.link}]}
            ELSE teardownLoop(src, step.res.fs, toLink(todo, Nil) \ {step.pkg},
                              err, linked \cup {step.link})
            : step \in teardownSteps(src, files, toLink(todo, Nil))}

\* notAGoWorkspace with the result of os.Stat ignored
notAGoWorkspaceIgnored(w) == FALSE

\* the os.Stat of go.work fails
notAGoWorkspace(w) == ~w.exists

LinkGoWorkspace ==
    /\ ops < MaxOps
    /\ IF notAGoWorkspace(work)
       THEN /\ call' = [op |-> "LinkGoWorkspace", target |-> Nil,
                        err |-> ErrNotWorkspace, linked |-> {}]
            /\ UNCHANGED <<fs, work>>
       ELSE \E res \in teardownLoop(sources, fs, Packages, ErrNone, {}) :
            /\ work' = [exists |-> TRUE, Use |-> rewriteWork(work.Use)]
            /\ fs' = res.fs
            /\ call' = [op |-> "LinkGoWorkspace", target |-> Nil,
                        err |-> res.err, linked |-> res.linked]
    /\ prev' = [op |-> call.op, target |-> call.target, err |-> call.err]
    /\ pre' = [fs |-> fs, work |-> work]
    /\ ops' = ops + 1
    /\ UNCHANGED <<sources, orig>>

(***************************************************************************)
(* Initial states: the workspace as the user left it                       *)
(***************************************************************************)
IgnoreComment == <<"blazedock", "ignore", "me">>

Foreign(oldPath, oldVers, newPath, newVers) ==
    DiskLine(Version(oldPath, oldVers), Version(newPath, newVers), NoComment)

\* replace directives the go.mod files may hold initially: written by hand
\* (no comment, or a comment without the marker) or left by an earlier run
InitLines ==
    { <<"c/go.mod", Foreign("mod/a", "", "fork", "v1")>>,
      <<"c/go.mod", Foreign("mod/a", "v1", "fork", "v1")>>,
      <<"c/go.mod", Foreign("x", "", "t1", "v1")>>,
      <<"c/go.mod", Foreign("x", "v1", "t1", "v1")>>,
      <<"c/go.mod", DiskLine(Version("mod/a", ""), Version("../a", ""), DirectComment)>>,
      <<"c/go.mod", DiskLine(Version("mod/b", ""), Version("../b", ""), DirectComment)>>,
      <<"c/go.mod", DiskLine(Version("x", ""), Version("t1", "v1"), IndirectComment("b:lib"))>>,
      <<"c/go.mod", DiskLine(Version("mod/a", ""), Version("fork", "v1"), IgnoreComment)>>,
      <<"c/go.mod", DiskLine(Version("mod/a", "v1"), Version("fork", "v1"), IgnoreComment)>>,
      <<"a/go.mod", Foreign("x", "", "t1", "v1")>>,
      <<"a/go.mod", DiskLine(Version("mod/b", ""), Version("../b", ""), DirectComment)>>,
      <<"b/go.mod", DiskLine(Version("x", ""), Version("t2", "v1"), <<"pinned">>)>>,
      <<"b/go.mod", Foreign("mod/a", "v1", "fork", "v1")>>,
      <<"b/go.mod", Foreign("mod/a", "", "../a", "")>> }

\* use directives go.work may hold initially
InitUses ==
    { UseLine("a", NoComment), UseLine("x", NoComment),
      UseLine("a", DirectComment), UseLine("x", DirectComment) }

\* at most one directive per key in a go.mod
UniqueKeys(lines) ==
    \A i, j \in 1..Len(lines) : lines[i].Old = lines[j].Old => i = j

\* the lines placed in file fn, in order
RECURSIVE LinesOf(_, _, _)
LinesOf(placed, fn, i) ==
    IF i > Len(placed) THEN << >>
    ELSE IF placed[i][1] = fn THEN <<placed[i][2]>> \o LinesOf(placed, fn, i + 1)
         ELSE LinesOf(placed, fn, i + 1)

\* what is wrong with the workspace: nothing, a go package that does not
\* list a go.mod, a go.mod that cannot be read or parsed, no go.work
Faults ==
    {<<"none", "">>, <<"nowork", "">>}
        \cup {<<"nomod", p>> : p \in GoPackages}
        \cup {<<"broken", fn>> : fn \in Files}

Init ==
    \E n \in 0..MaxInit, fault \in Faults :
    \E m \in 0..n :
    \E placed \in [1..m -> InitLines], uses \in [1..(n - m) -> InitUses] :
        /\ fault[1] # "none" => n < MaxInit
        /\ \A fn \in Files : UniqueKeys(LinesOf(placed, fn, 1))
        /\ fault[1] = "broken" => LinesOf(placed, fault[2], 1) = << >>
        /\ fault[1] = "nowork" => uses = << >>
        /\ sources = [p \in Packages |->
                        IF Type(p) # GoPackage \/ fault = <<"nomod", p>>
                        THEN NoFile ELSE GoModOf(p)]
        /\ fs = [fn \in Files |->
                    [ok |-> fault # <<"broken", fn>>, Replace |-> LinesOf(placed, fn, 1)]]
        /\ work = [exists |-> fault[1] # "nowork", Use |-> uses]
        /\ call = [op |-> "init", target |-> Nil, err |-> ErrNone, linked |-> {}]
        /\ prev = [op |-> "init", target |-> Nil, err |-> ErrNone]
        /\ pre = [fs |-> fs, work |-> work]
        /\ orig = fs
        /\ ops = 0

LinkAll == LinkGoModules(Nil)

LinkTarget == \E target \in Packages : LinkGoModules(target)

Next == LinkAll \/ LinkTarget \/ LinkGoWorkspace

Spec == Init /\ [][Next]_vars

(***************************************************************************)
(* Reading the state                                                       *)
(***************************************************************************)
\* the ownership kind of a directive on disk
Kind(line) ==
    LET cls == isBlazedockReplace(line)
    IN IF ~cls.ok THEN "foreign"
       ELSE IF cls.tpe = blazedockReplaceIndirect THEN "owned-indirect"
       ELSE IF cls.tpe = blazedockReplaceIgnore THEN "owned-ignore"
       ELSE "owned-direct"

\* the directives of a kind, in file order
OfKind(lines, kind) == SelectSeq(lines, LAMBDA l : Kind(l) = kind)

Count(lines, l) == Cardinality({i \in 1..Len(lines) : lines[i] = l})

\* the two sequences hold the same directives the same number of times
SameMultiset(s, t) ==
    \A l \in {s[i] : i \in 1..Len(s)} \cup {t[i] : i \in 1..Len(t)} :
        Count(s, l) = Count(t, l)

Linked == call.op = "LinkGoModules"

Synced == call.op = "LinkGoWorkspace"

\* the last call was LinkGoModules with target p
LinkedTarget(p) == Linked /\ call.target = p

\* C1: when LinkGoModules for a target fails on a key that collides with a
\* foreign entry of the target's go.mod, the go.mod files are as they were
\* before the call
C1_ConflictLeavesManifest ==
    \A p \in GoPackages :
        ( /\ LinkedTarget(p)
          /\ call.err = ErrConflict
          /\ OfKind(pre.fs[sources[p]].Replace, "owned-ignore") = << >> )
        => fs = pre.fs

\* C2: every go.mod holds the foreign directives it held initially
C2_ForeignUnchanged ==
    \A fn \in Files :
        SameMultiset(OfKind(fs[fn].Replace, "foreign"), OfKind(orig[fn].Replace, "foreign"))

\* the go dependencies of p that have an entry in the registry, and their
\* module identities
ResolvedDeps(p) ==
    {d \in GetTransitiveDependencies(p) : Type(d) = GoPackage /\ sources[d] # NoFile}

ResolvedNames(p) == {ModulePath(sources[d]) : d \in ResolvedDeps(p)}

\* the go.mod of p holds one owned-direct directive for each module of names,
\* keyed by the module, and no other owned-direct directive
DirectExactly(lines, names) ==
    LET direct == OfKind(lines, "owned-direct")
    IN /\ \A n \in names :
            Cardinality({i \in 1..Len(direct) : direct[i].Old = Version(n, "")}) = 1
       /\ \A i \in 1..Len(direct) : direct[i].Old \in {Version(n, "") : n \in names}

\* C3: after a successful link of p its go.mod holds exactly one owned-direct
\* directive per resolved dependency and none for any other module
C3_DirectPerDependency ==
    \A p \in GoPackages :
        (LinkedTarget(p) /\ call.err = ErrNone)
        => DirectExactly(fs[sources[p]].Replace, ResolvedNames(p))

\* C4: a second LinkGoModules for the same target right after a successful
\* one succeeds and leaves every go.mod as the first left it
C4_LinkIdempotent ==
    ( /\ Linked
      /\ prev.op = "LinkGoModules"
      /\ prev.target = call.target
      /\ prev.err = ErrNone )
    => (call.err = ErrNone /\ fs = pre.fs)

\* the directives of the kinds the engine owns and tears down
Owned(lines) ==
    SelectSeq(lines, LAMBDA l : Kind(l) \in {"owned-direct", "owned-indirect"})

\* C5 as stated: after a successful LinkGoWorkspace no go.mod holds an owned
\* directive of any owned kind
C5_NoOwnedOfAnyKind ==
    (Synced /\ call.err = ErrNone)
    => \A fn \in Files : \A i \in 1..Len(fs[fn].Replace) : Kind(fs[fn].Replace[i]) = "foreign"

\* C5 amended: after a successful LinkGoWorkspace no go.mod holds an
\* owned-direct or owned-indirect directive, and the owned-ignore directives
\* are the ones held before
C5_NoOwnedButIgnore ==
    (Synced /\ call.err = ErrNone)
    => \A fn \in Files :
        /\ Owned(fs[fn].Replace) = << >>
        /\ OfKind(fs[fn].Replace, "owned-ignore") = OfKind(pre.fs[fn].Replace, "owned-ignore")

\* a successful LinkGoWorkspace on a go.mod that held an owned-direct and an
\* owned-ignore directive
C5_Witness ==
    /\ Synced /\ call.err = ErrNone
    /\ \E fn \in Files :
        /\ OfKind(pre.fs[fn].Replace, "owned-direct") # << >>
        /\ OfKind(fs[fn].Replace, "owned-ignore") # << >>

\* the use directives of go.work that carry the marker
OwnedUses == SelectSeq(work.Use, LAMBDA u : isBlazedockReplace(u).ok)

\* C6: after a successful LinkGoWorkspace the owned use directives are the
\* directories of the go packages, one directive per directory
C6_OwnedUsesAreGoModules ==
    (Synced /\ call.err = ErrNone)
    => /\ \A d \in goModules :
            Cardinality({i \in 1..Len(OwnedUses) : OwnedUses[i].Path = d}) = 1
       /\ \A i \in 1..Len(OwnedUses) : OwnedUses[i].Path \in goModules

\* C7: LinkGoWorkspace without a go.work returns the precondition error,
\* does not create go.work and leaves every go.mod as it was
C7_NoWorkNoWrite ==
    (Synced /\ ~pre.work.exists)
    => (call.err = ErrNotWorkspace /\ work = pre.work /\ fs = pre.fs)

\* LinkGoWorkspace was called without a go.work while a go.mod held an owned
\* directive the teardown would have removed
C7_Witness ==
    /\ Synced /\ ~pre.work.exists
    /\ \E fn \in Files : Owned(pre.fs[fn].Replace) # << >>

\* some go package lists a go.mod that could not be read when the call began
CollectFails ==
    \E p \in GoPackages : sources[p] # NoFile /\ ~pre.fs[sources[p]].ok

\* C8: when the go.mod of any go package cannot be read or parsed,
\* LinkGoModules returns the error, links no package and writes no go.mod
C8_CollectAllOrNothing ==
    (Linked /\ CollectFails)
    => (call.err = ErrRead /\ call.linked = {} /\ fs = pre.fs)

\* LinkGoModules was called for a package whose own go.mod is readable and
\* holds directives to tear down while another go.mod is not readable
C8_Witness ==
    /\ Linked /\ CollectFails
    /\ call.target \in GoPackages
    /\ sources[call.target] # NoFile
    /\ pre.fs[sources[call.target]].ok
    /\ Owned(pre.fs[sources[call.target]].Replace) # << >>

\* the go dependencies of p that have no entry in the registry
MissingDeps(p) ==
    {d \in GetTransitiveDependencies(p) : Type(d) = GoPackage /\ sources[d] = NoFile}

\* C9: linking a package one of whose go dependencies has no registry entry
\* does not fail for that, and on success the go.mod written holds one
\* owned-direct directive per remaining resolved dependency and none for any
\* other module
C9_MissingEntryNonFatal ==
    \A p \in GoPackages :
        (LinkedTarget(p) /\ sources[p] # NoFile /\ MissingDeps(p) # {} /\ ~CollectFails)
        => /\ call.err \in {ErrNone, ErrConflict}
           /\ call.err = ErrNone => DirectExactly(fs[sources[p]].Replace, ResolvedNames(p))

\* C10: every package linked by an unscoped LinkGoModules is linked with the
\* registry entries collected from the go.mod files as they were when the
\* call began
C10_RegistrySnapshot ==
    (Linked /\ call.target = Nil)
    => \A l \in call.linked : \A m \in l.mods :
            m = goModule(sources, pre.fs, m.OriginPackage)

\* an unscoped LinkGoModules linked a package with a registry entry whose
\* replacements are no longer the foreign directives of that go.mod
C10_Witness ==
    /\ Linked /\ call.target = Nil /\ call.err = ErrNone
    /\ \E l \in call.linked : \E m \in l.mods :
        m.Replacements # goModule(sources, fs, m.OriginPackage).Replacements

\* the last call was one after which the teardown and, for LinkGoModules,
\* the additions have been made in full
Completed == Synced \/ (Linked /\ call.err = ErrNone)

\* C11: the owned-ignore directives of every go.mod are the same, with the
\* same key, target and comment, after LinkGoWorkspace and after a successful
\* LinkGoModules as before the call
C11_IgnoreUntouched ==
    Completed
    => \A fn \in Files :
        OfKind(fs[fn].Replace, "owned-ignore") = OfKind(pre.fs[fn].Replace, "owned-ignore")

\* every foreign directive a go.mod held before the last call is still in it
ForeignKept ==
    \A fn \in Files :
        \A l \in {pre.fs[fn].Replace[i] : i \in 1..Len(pre.fs[fn].Replace)} :
            Kind(l) = "foreign" => Count(fs[fn].Replace, l) = Count(pre.fs[fn].Replace, l)

\* C12: every go.mod holds at most one directive per key after any sequence
\* of calls, and no call replaces or removes a foreign directive
C12_KeysUnique ==
    /\ \A fn \in Files : UniqueKeys(fs[fn].Replace)
    /\ ForeignKept

\* the use directives that do not carry the marker
ForeignUses(uses) == SelectSeq(uses, LAMBDA u : ~isBlazedockReplace(u).ok)

\* C13: after LinkGoWorkspace go.work holds the use directives without the
\* marker it held before, still without the marker, and no others
C13_ForeignUsesUnchanged ==
    Synced => SameMultiset(ForeignUses(work.Use), ForeignUses(pre.work.Use))

\* the packages for which the last call called linkGoModule or
\* removeBlazedockReplaceRules
Visited == {l.pkg : l \in call.linked}

\* removeBlazedockReplaceRules fails for package p on the files as they were
\* when the last call began
TeardownFails(p) == sources[p] = NoFile \/ ~pre.fs[sources[p]].ok

\* the go.mod files of the visited packages whose teardown did not fail
TornFiles == {sources[p] : p \in {q \in Visited : ~TeardownFails(q)}}

\* the lines of a go.mod after removeBlazedockReplaceRules
TornDown(lines) == Format(dropOwned(Parse(lines), 1).gomod)

\* C14: when the teardown of a package fails, LinkGoWorkspace returns that
\* error and visits no further package: go.work has been rewritten, the
\* go.mod files of the packages visited before are torn down, and the others
\* are as they were
C14_TeardownAborts ==
    (Synced /\ pre.work.exists /\ call.err # ErrNone)
    => /\ work = [exists |-> TRUE, Use |-> rewriteWork(pre.work.Use)]
       /\ Cardinality({p \in Visited : TeardownFails(p)}) = 1
       /\ \A p \in Visited :
            TeardownFails(p)
            => call.err = IF sources[p] = NoFile THEN ErrNotFound ELSE ErrRead
       /\ \A fn \in Files :
            fs[fn].Replace = IF fn \in TornFiles THEN TornDown(pre.fs[fn].Replace)
                             ELSE pre.fs[fn].Replace

\* LinkGoWorkspace failed after it tore down a go.mod that held an owned
\* directive and before it reached a package whose go.mod holds one
C14_Witness ==
    /\ Synced /\ pre.work.exists /\ call.err # ErrNone
    /\ \E fn \in TornFiles : Owned(pre.fs[fn].Replace) # << >>
    /\ \E p \in GoPackages \ Visited :
        /\ sources[p] # NoFile
        /\ Owned(fs[sources[p]].Replace) # << >>

\* the owned-direct and owned-indirect directives of a go.mod, as a set of
\* key, target and comment (the comment holds the kind and the source)
OwnedSet(lines) == {lines[i] : i \in {j \in 1..Len(lines) : Owned(<<lines[j]>>) # << >>}}

\* the callback of linkGoModule on gomod: its two loops in the order of the
\* code, and in the other order
linkDirectFirst(gomod, goModFN, mods) ==
    linkIndirect(linkDirect([err |-> ErrNone, gomod |-> gomod], goModFN, mods, 1),
                 mods, 1, 1)

linkIndirectFirst(gomod, goModFN, mods) ==
    linkDirect(linkIndirect([err |-> ErrNone, gomod |-> gomod], mods, 1, 1),
               goModFN, mods, 1)

\* the registry entries of the resolved dependencies of p, read from the
\* go.mod files as they are, in every order
AddOrders(p) ==
    {[i \in 1..Len(deps) |-> goModule(sources, fs, deps[i])] : deps \in Perms(ResolvedDeps(p))}

\* the sets of owned directives the go.mod of p can end with when it is torn
\* down and the entries are then added in some order without an error
OwnedOutcomes(p) ==
    {OwnedSet(Format(res.gomod)) :
        res \in {r \in UNION {{linkDirectFirst(Parse(TornDown(fs[sources[p]].Replace)),
                                               sources[p], mods),
                               linkIndirectFirst(Parse(TornDown(fs[sources[p]].Replace)),
                                                 sources[p], mods)} :
                                 mods \in AddOrders(p)} :
                    r.err = ErrNone}}

\* every go.mod a go package lists can be read
AllReadable == \A p \in GoPackages : sources[p] # NoFile => fs[sources[p]].ok

\* C15: for a target and the registry of the current files, the set of owned
\* directives written (key, target, kind, source) is the same whether the
\* direct entries are added before or after the indirect ones and in whatever
\* order the dependencies are taken
C15_OrderOnlyLayout ==
    \A p \in GoPackages :
        (sources[p] # NoFile /\ AllReadable) => Cardinality(OwnedOutcomes(p)) <= 1

\* the go.mod files a scoped link of p can leave, one per order in which
\* GetTransitiveDependencies may enumerate the dependencies of p, from the
\* files as they were when the last call began
LinkOutcomes(p) ==
    {linkGoModule(pre.fs, sources[p], apmods) :
        apmods \in SortedApmods(p, collectReplacements(sources, pre.fs).mods)}

\* C16: a successful scoped link leaves the go.mod files that every other
\* enumeration order of the target's dependencies leaves as well
C16_TraversalOrderIrrelevant ==
    \A p \in GoPackages :
        (LinkedTarget(p) /\ call.err = ErrNone)
        => \A res \in LinkOutcomes(p) : res.err = ErrNone /\ res.fs = fs

\* the registry entries the last call linked package p with
LinkedMods(p) == UNION {l.mods : l \in {k \in call.linked : k.pkg = p}}

\* directive l is the replay of a foreign override of one of the entries mods
IsReplayOf(l, mods) ==
    \E m \in mods : \E j \in 1..Len(m.Replacements) :
        /\ l.Old = m.Replacements[j].Old
        /\ l.New = m.Replacements[j].New
        /\ l.Suffix = IndirectComment(m.OriginPackage)

\* lines holds an owned-indirect directive for the key of every foreign
\* override of the entries mods
AllReplayed(lines, mods) ==
    \A m \in mods : \A j \in 1..Len(m.Replacements) :
        \E i \in 1..Len(lines) :
            /\ Kind(lines[i]) = "owned-indirect"
            /\ lines[i].Old = m.Replacements[j].Old

\* C17: after a successful scoped link of p the owned-indirect directives of
\* its go.mod are the replayed foreign overrides of the registry entries it
\* was linked with: each has the key and target of such an override and
\* names its package as source, and each override's key has one
C17_IndirectAreReplays ==
    \A p \in GoPackages :
        (LinkedTarget(p) /\ call.err = ErrNone)
        => /\ \A i \in 1..Len(fs[sources[p]].Replace) :
                Kind(fs[sources[p]].Replace[i]) = "owned-indirect"
                => IsReplayOf(fs[sources[p]].Replace[i], LinkedMods(p))
           /\ AllReplayed(fs[sources[p]].Replace, LinkedMods(p))

\* C18: the replacements of every registry entry a LinkGoModules call links
\* with are the foreign directives of that package's go.mod as it was when
\* the call began, so none of them is an owned directive of any kind
C18_CollectsForeignOnly ==
    Linked
    => \A l \in call.linked : \A m \in l.mods :
        /\ m.Replacements = OfKind(pre.fs[sources[m.OriginPackage]].Replace, "foreign")
        /\ \A j \in 1..Len(m.Replacements) : Kind(m.Replacements[j]) = "foreign"

\* a second LinkGoModules linked a package with the registry entry of a
\* dependency whose go.mod held owned directives written by the first
C18_Witness ==
    /\ Linked /\ call.err = ErrNone
    /\ prev.op = "LinkGoModules" /\ prev.err = ErrNone
    /\ \E l \in call.linked : \E m \in l.mods :
        /\ OfKind(pre.fs[sources[m.OriginPackage]].Replace, "owned-direct") # << >>
        /\ OfKind(pre.fs[sources[m.OriginPackage]].Replace, "owned-direct")
            # OfKind(orig[sources[m.OriginPackage]].Replace, "owned-direct")

\* C19: a scoped LinkGoModules calls linkGoModule for the target only and
\* leaves go.work and every go.mod but the target's as they were, and writes
\* nothing for a target that is not a go package; an unscoped one that
\* succeeds has linked every go package
C19_ScopedFrame ==
    Linked
    => /\ work = pre.work
       /\ call.target # Nil
          => /\ Visited \subseteq {call.target}
             /\ \A fn \in Files : fn # sources[call.target] => fs[fn] = pre.fs[fn]
       /\ (call.target # Nil /\ Type(call.target) # GoPackage)
          => (Visited = {} /\ fs = pre.fs)
       /\ (call.target = Nil /\ call.err = ErrNone) => Visited = GoPackages

\* a scoped LinkGoModules rewrote the go.mod of its target while another
\* go.mod holds owned directives an unscoped one would have rewritten
C19_Witness ==
    /\ Linked /\ call.target \in GoPackages /\ call.err = ErrNone
    /\ fs[sources[call.target]] # pre.fs[sources[call.target]]
    /\ \E fn \in Files :
        /\ fn # sources[call.target]
        /\ fs[fn].Replace # TornDown(fs[fn].Replace)

(***************************************************************************)
(* The classifier on arbitrary comments                                    *)
(***************************************************************************)
\* longest suffix comment of the directive written by hand, in words
MaxComment == 3

CommentWords == {"blazedock", "indirect", "ignore", "from", "me"}

\* the suffix comments a directive may carry: the words after the slashes
Comments == UNION {[1..n -> CommentWords] : n \in 0..MaxComment}

\* a workspace whose c/go.mod holds one directive with any suffix comment
InitClassifier ==
    \E c \in Comments :
        /\ sources = [p \in Packages |-> IF Type(p) # GoPackage THEN NoFile ELSE GoModOf(p)]
        /\ fs = [fn \in Files |->
                    [ok |-> TRUE,
                     Replace |-> IF fn = "c/go.mod"
                                 THEN <<DiskLine(Version("x", ""), Version("t1", "v1"), c)>>
                                 ELSE << >>]]
        /\ work = [exists |-> TRUE, Use |-> << >>]
        /\ call = [op |-> "init", target |-> Nil, err |-> ErrNone, linked |-> {}]
        /\ prev = [op |-> "init", target |-> Nil, err |-> ErrNone]
        /\ pre = [fs |-> fs, work |-> work]
        /\ orig = fs
        /\ ops = 0

SpecClassifier == InitClassifier /\ [][Next]_vars

\* word w is one of the words of comment c
HasWord(c, w) == \E i \in 1..Len(c) : c[i] = w

\* word w is one of the words of comment c and another word follows it
HasWordBefore(c, w) == \E i \in 1..(Len(c) - 1) : c[i] = w

\* the kind the comment stands for: foreign without the marker, else
\* owned-indirect with "indirect" and a word after it (as in "indirect from
\* <source>"), else owned-ignore with "ignore" wherever it is, the last word
\* included, else owned-direct
StatedKind(c) ==
    IF ~HasWord(c, "blazedock") THEN "foreign"
    ELSE IF HasWordBefore(c, "indirect") THEN "owned-indirect"
    ELSE IF HasWord(c, "ignore") THEN "owned-ignore"
    ELSE "owned-direct"

\* C20: every directive of a go.mod is classified by its suffix comment
\* alone: foreign without the marker, owned-indirect with the marker and the
\* indirect sub-token, owned-ignore with the marker and the ignore sub-token
\* (also as the last word), owned-direct with the marker alone; and the
\* comments addReplace writes are classified as the kind they were written as
C20_ClassifierTotal ==
    /\ \A fn \in Files : \A i \in 1..Len(fs[fn].Replace) :
            Kind(fs[fn].Replace[i]) = StatedKind(fs[fn].Replace[i].Suffix)
    /\ isBlazedockReplace([Suffix |-> DirectComment])
            = [ok |-> TRUE, tpe |-> blazedockReplaceDirect]
    /\ \A p \in Packages :
            isBlazedockReplace([Suffix |-> IndirectComment(p)])
                = [ok |-> TRUE, tpe |-> blazedockReplaceIndirect]

\* C21: a second LinkGoWorkspace right after a successful one succeeds and
\* leaves go.work and every go.mod as the first left them
C21_SyncIdempotent ==
    (Synced /\ prev.op = "LinkGoWorkspace" /\ prev.err = ErrNone)
    => (call.err = ErrNone /\ work = pre.work /\ fs = pre.fs)

\* the go packages that list no go.mod among their sources
NoManifest == {p \in GoPackages : sources[p] = NoFile}

\* the go.mod files LinkGoModules leaves when it links the packages ps and
\* no others, without an error, from the files as they were when the last
\* call began
LinkedOnly(ps) ==
    {res.fs : res \in
        {r \in LinkLoop(sources, pre.fs, call.target, ps,
                        linkChoices(toLink(ps, call.target),
                                    collectReplacements(sources, pre.fs).mods),
                        {}) : r.err = ErrNone}}

\* C22: a go package without a go.mod among its sources has no entry in the
\* registry and does not make the collection fail; LinkGoModules, unscoped or
\* targeted at it, and LinkGoWorkspace visit it and return the not-found
\* error there: LinkGoModules then leaves the go.mod files as linking the
\* packages visited before it leaves them, the others as they were
C22_NoManifestNotSkipped ==
    \A p \in NoManifest :
        /\ p \notin DOMAIN collectReplacements(sources, fs).mods
        /\ collectReplacements(sources, fs).err = ErrNone
        /\ Linked => call.err # ErrRead
        /\ ((Linked \/ Synced) /\ call.target \in {Nil, p})
           => call.err # ErrNone
        /\ (LinkedTarget(p) \/ p \in Visited)
           => p \in Visited /\ call.err = ErrNotFound
        /\ (Linked /\ p \in Visited)
           => /\ fs \in LinkedOnly(Visited \ {p})
              /\ \A fn \in Files \ {sources[q] : q \in Visited} :
                    fs[fn] = pre.fs[fn]

\* an unscoped LinkGoModules reached a package without a go.mod after it
\* rewrote the go.mod of another package and before it visited a third
C22_Witness ==
    /\ Linked /\ call.target = Nil
    /\ \E p \in NoManifest \cap Visited :
        /\ \E q \in Visited \ {p} : fs[sources[q]] # pre.fs[sources[q]]
        /\ \E r \in GoPackages \ Visited :
            sources[r] \notin {sources[q] : q \in Visited}

\* the registry entries package p was linked with that hold a foreign
\* override with key k
Carriers(p, k) ==
    {m \in LinkedMods(p) :
        \E j \in 1..Len(m.Replacements) : m.Replacements[j].Old = k}

\* those of them whose module path is last in ascending order
LastCarriers(p, k) ==
    {m \in Carriers(p, k) :
        \A n \in Carriers(p, k) : StrRank(n.Name) <= StrRank(m.Name)}

\* two of the entries p was linked with hold overrides with key k and
\* different targets
SameKeyCollision(p, k) ==
    \E m, n \in Carriers(p, k) :
        \E i \in 1..Len(m.Replacements), j \in 1..Len(n.Replacements) :
            /\ m.Replacements[i].Old = k
            /\ n.Replacements[j].Old = k
            /\ m.Replacements[i].New # n.Replacements[j].New

\* the keys of the foreign overrides of the entries p was linked with
ReplayedKeys(p) ==
    UNION {{m.Replacements[j].Old : j \in 1..Len(m.Replacements)} :
            m \in LinkedMods(p)}

\* the go.mod of p held nothing but owned direct and indirect directives when
\* the last call began
OnlyOwned(p) ==
    \A i \in 1..Len(pre.fs[sources[p]].Replace) :
        Kind(pre.fs[sources[p]].Replace[i]) \in {"owned-direct", "owned-indirect"}

C24_BatchOrderIndependent ==
    (Linked /\ call.target = Nil /\ call.err = ErrNone)
    => /\ \A res \in LinkGoModulesResults(sources, pre.fs, Nil) :
            res.err = ErrNone /\ res.fs = fs
       /\ \A p \in GoPackages :
            \A res \in LinkGoModulesResults(sources, pre.fs, p) :
                res.err = ErrNone /\ res.fs[sources[p]] = fs[sources[p]]

\* the keys of the entries a link of p adds: one per registry entry it was
\* linked with, and the keys of their foreign overrides
NewKeys(p) == {Version(m.Name, "") : m \in LinkedMods(p)} \cup ReplayedKeys(p)

\* the go.mod of p held, when the last call began, an owned-ignore directive
\* whose key is the key of an entry the link of p adds
IgnoreCollision(p) ==
    /\ LinkedTarget(p) /\ sources[p] # NoFile
    /\ \E i \in 1..Len(pre.fs[sources[p]].Replace) :
        /\ Kind(pre.fs[sources[p]].Replace[i]) = "owned-ignore"
        /\ pre.fs[sources[p]].Replace[i].Old \in NewKeys(p)

\* C25: a scoped link that adds an entry with the key of an owned-ignore
\* directive of the target's go.mod returns the error of a collision with a
\* foreign entry, and the go.mod holds its owned-ignore directives as before
C25_IgnoreCollides ==
    \A p \in GoPackages :
        IgnoreCollision(p)
        => /\ call.err = ErrConflict
           /\ OfKind(fs[sources[p]].Replace, "owned-ignore")
                = OfKind(pre.fs[sources[p]].Replace, "owned-ignore")

\* a scoped link met an owned-ignore directive with the key of a direct entry
\* it adds
C25_Witness ==
    \E p \in GoPackages :
        /\ IgnoreCollision(p)
        /\ \E i \in 1..Len(fs[sources[p]].Replace) :
            /\ Kind(fs[sources[p]].Replace[i]) = "owned-ignore"
            /\ fs[sources[p]].Replace[i].Old
                    \in {Version(m.Name, "") : m \in LinkedMods(p)}

====
